---- MODULE Spec2Model ----
(***************************************************************************)
(* Kokoro TTS sidecar (server/src/tts/sidecar.py): the text segmenter      *)
(* (chunk_text and its helpers) and the JSON-lines protocol loop (main,    *)
(* handle_request, handle_generate, generate_chunks, load_model).          *)
(*                                                                         *)
(* A Python str is a sequence of one-character strings; a dict is a        *)
(* function whose DOMAIN is the set of keys present.                       *)
(***************************************************************************)
EXTENDS Integers, Sequences, FiniteSets, TLC

\* ------------------------------------------------------------ constants

MIN_CHUNK_SIZE == 20
MAX_SENTENCE_LENGTH == 150
DEFAULT_SAMPLE_RATE == 24000
\* A rate other than the default one, as _kokoro.create may report it.
OTHER_SAMPLE_RATE == 22050

\* Bounds of the model.
MaxLines == 2
MaxPieces == 3

\* ------------------------------------------------------------- strings

\* str.strip() and the regex class \s: whitespace.
WS == {" ", "\t", "\n"}
\* [.!?] of sentence_pattern.
SentencePunct == {".", "!", "?"}
\* [,;:—-] of clause_pattern ("--" stands for the em dash U+2014).
ClausePunct == {",", ";", ":", "--", "-"}

Rep(c, n) == [i \in 1..n |-> c]

RECURSIVE FirstNonWs(_, _)
FirstNonWs(s, i) ==
    IF i > Len(s) THEN i
    ELSE IF s[i] \in WS THEN FirstNonWs(s, i + 1) ELSE i

RECURSIVE LastNonWs(_, _)
LastNonWs(s, i) ==
    IF i < 1 THEN i
    ELSE IF s[i] \in WS THEN LastNonWs(s, i - 1) ELSE i

\* str.strip(): leading and trailing whitespace removed.
Strip(s) == SubSeq(s, FirstNonWs(s, 1), LastNonWs(s, Len(s)))

\* The starts of the matches of (?<=[P])\s+ in s: a whitespace character
\* right after a character of P (the match then takes the whole run, whose
\* later characters follow whitespace, not P).
Boundaries(s, P) == {i \in 1..(Len(s) - 1) : s[i] \in P /\ s[i + 1] \in WS}

Least(S) == CHOOSE x \in S : \A y \in S : x <= y

\* re.split(pattern, s), from position p on: the text between the matches.
RECURSIVE SplitFrom(_, _, _)
SplitFrom(s, B, p) ==
    LET later == {i \in B : i >= p} IN
    IF later = {} THEN <<SubSeq(s, p, Len(s))>>
    ELSE LET i == Least(later) IN
         <<SubSeq(s, p, i)>> \o SplitFrom(s, B, FirstNonWs(s, i + 1))

ReSplit(s, P) == SplitFrom(s, Boundaries(s, P), 1)

\* The loops' "x = x.strip(); if not x: continue".
RECURSIVE StripAll(_)
StripAll(ps) ==
    IF ps = <<>> THEN <<>>
    ELSE LET x == Strip(Head(ps)) IN
         (IF x = <<>> THEN <<>> ELSE <<x>>) \o StripAll(Tail(ps))

\* ----------------------------------------------------------- segmenter

\* One iteration of the loop of _split_on_clauses over st = <<result,
\* current_chunk>>.
ClauseStep(st, clause) ==
    LET result == st[1]
        current == st[2]
    IN  IF current # <<>> /\ Len(current) + Len(clause) + 1 > MAX_SENTENCE_LENGTH
        THEN <<Append(result, current), clause>>
        ELSE IF current # <<>>
             THEN <<result, current \o <<" ">> \o clause>>
             ELSE <<result, clause>>

RECURSIVE ClauseLoop(_, _)
ClauseLoop(st, clauses) ==
    IF clauses = <<>> THEN st
    ELSE ClauseLoop(ClauseStep(st, Head(clauses)), Tail(clauses))

_split_on_clauses(sentence) ==
    LET st == ClauseLoop(<<<<>>, <<>>>>, StripAll(ReSplit(sentence, ClausePunct)))
    IN  IF st[2] # <<>> THEN Append(st[1], st[2]) ELSE st[1]

\* result[-1] = result[-1] + chunk: the joining space left out.
JoinLastNoSpace(result, chunk) ==
    [result EXCEPT ![Len(result)] = result[Len(result)] \o chunk]

\* result[-1] = result[-1] + " " + chunk
JoinLast(result, chunk) ==
    [result EXCEPT ![Len(result)] = result[Len(result)] \o <<" ">> \o chunk]

\* The loop of _merge_small_chunks without its "previous chunk is small"
\* branch: a small chunk is merged backwards only.
MergeStepBackwardOnly(result, chunk) ==
    IF result = <<>> THEN <<chunk>>
    ELSE IF Len(chunk) < MIN_CHUNK_SIZE THEN JoinLast(result, chunk)
    ELSE Append(result, chunk)

\* One iteration of the loop of _merge_small_chunks.
MergeStep(result, chunk) ==
    IF result = <<>> THEN <<chunk>>
    ELSE IF Len(chunk) < MIN_CHUNK_SIZE THEN JoinLast(result, chunk)
    ELSE IF Len(result[Len(result)]) < MIN_CHUNK_SIZE THEN JoinLast(result, chunk)
    ELSE Append(result, chunk)

RECURSIVE MergeLoop(_, _)
MergeLoop(result, chunks) ==
    IF chunks = <<>> THEN result
    ELSE MergeLoop(MergeStep(result, Head(chunks)), Tail(chunks))

_merge_small_chunks(chunks) == MergeLoop(<<>>, chunks)

\* One iteration of the sentence loop of chunk_text.
SentenceStep(chunks, sentence) ==
    IF Len(sentence) > MAX_SENTENCE_LENGTH
    THEN chunks \o _split_on_clauses(sentence)
    ELSE IF chunks # <<>> /\ Len(sentence) < MIN_CHUNK_SIZE
         THEN JoinLast(chunks, sentence)
         ELSE Append(chunks, sentence)

RECURSIVE SentenceLoop(_, _)
SentenceLoop(chunks, sentences) ==
    IF sentences = <<>> THEN chunks
    ELSE SentenceLoop(SentenceStep(chunks, Head(sentences)), Tail(sentences))

\* chunk_text without its "short enough" return: every text is split.
chunk_text_always_split(text) ==
    LET t == Strip(text) IN
    IF t = <<>> THEN <<>>
    ELSE _merge_small_chunks(
             SentenceLoop(<<>>, StripAll(ReSplit(t, SentencePunct))))

chunk_text(text) ==
    LET t == Strip(text) IN
    IF t = <<>> THEN <<>>
    ELSE IF Len(t) <= MAX_SENTENCE_LENGTH THEN <<t>>
    ELSE _merge_small_chunks(
             SentenceLoop(<<>>, StripAll(ReSplit(t, SentencePunct))))

\* ------------------------------------------------------------ protocol

VARIABLES
    pc,            \* where main is: Starting, Ready (about to read a line),
                   \* Generating (inside _kokoro.create of a chunk), Terminated
    nread,         \* the number of lines read from stdin
    stdout,        \* the responses sent, each with the number of lines read
                   \* when it was sent (at) and the line that caused it (cause)
    _kokoro,       \* the global _kokoro
    _sample_rate,  \* the global _sample_rate
    hist,          \* per line read: the line, what load_model did, the
                   \* outcomes of the _kokoro.create calls, and where main
                   \* went when the line's handling ended (then)
    frame,         \* the locals of handle_generate and generate_chunks
    segIn,         \* the text handed to chunk_text on its own
    segOut,        \* what chunk_text returned for it
    segPc          \* idle, ready (segIn chosen), done (segOut computed)

vars == <<pc, nread, stdout, _kokoro, _sample_rate, hist, frame,
          segIn, segOut, segPc>>
protoVars == <<pc, nread, stdout, _kokoro, _sample_rate, hist, frame>>
segVars == <<segIn, segOut, segPc>>

\* None, for _kokoro.
None == "None"

\* JSON values of the "text" field: a string, or a number.
Str(s) == [t |-> "str", s |-> s]
Num(n) == [t |-> "num", n |-> n]
IsStr(v) == v.t = "str"
\* "if text is None" in the place of "if not text": an empty text passes.
IsNotNone(v) == TRUE

\* Python truthiness ("if not text").
Truthy(v) == IF IsStr(v) THEN v.s # <<>> ELSE v.n # 0

\* dict.get(key, default)
Get(d, key, default) == IF key \in DOMAIN d THEN d[key] ELSE default

\* x or default, for a str x
OrElse(x, default) == IF x # "" THEN x ELSE default

\* A text of two sentences that chunk_text keeps apart.
LongText == Rep("a", 140) \o <<".", " ">> \o Rep("b", 20)

Texts == {Str(<<>>), Str(<<" ", " ">>), Str(LongText), Num(5)}
Ids == {"", "r1"}

WithId(d) == {d} \cup {d @@ [id |-> i] : i \in Ids}

Requests ==
    UNION {WithId(d) : d \in
        {[type |-> "ping"], [type |-> "shutdown"], [type |-> "foo"],
         [type |-> "generate"]}
        \cup {[type |-> "generate", text |-> x] : x \in Texts}}

\* The input lines: blank, not JSON, JSON that is no object (an array, a
\* number, a string, null), a JSON object.
Lines ==
    {[k |-> "blank"], [k |-> "badjson"], [k |-> "nonobj"]}
    \cup {[k |-> "obj", d |-> d] : d \in Requests}

\* send_response, as the entry it adds to stdout.
Sent(m, at, cause) == [msg |-> m, at |-> at, cause |-> cause]

ErrorMsg(id, text, recoverable) ==
    [id |-> id, type |-> "error", error |-> text, recoverable |-> recoverable]

\* handle_request: request_id or "health", for the pong.
PongId(d) == OrElse(Get(d, "id", ""), "health")

\* The unknown-type error never carrying the incoming id.
UnknownTypeIdDropped(d) == "unknown"

\* handle_request: request_id or "unknown", for an unknown type.
UnknownTypeId(d) == OrElse(Get(d, "id", ""), "unknown")

\* handle_generate answering every request under the id "unknown".
GenerateIdDropped(d) == "unknown"

\* handle_generate: request.get("id", "unknown")
GenerateId(d) == Get(d, "id", "unknown")

\* The load failure reported as one the request survives.
LoadErrorRecoverable(id) == ErrorMsg(id, "Failed to load TTS model", TRUE)

\* The chunk failure reported as one the session does not survive.
GenerationErrorFatal(id, e) == ErrorMsg(id, e, FALSE)

\* handle_generate's three error responses.
NoTextError(id) == ErrorMsg(id, "No text provided", TRUE)
LoadError(id) == ErrorMsg(id, "Failed to load TTS model", FALSE)
GenerationError(id, e) == ErrorMsg(id, e, TRUE)

\* main's two error responses.
InvalidJsonError == ErrorMsg("unknown", "Invalid JSON", TRUE)
\* The fatal response with recoverable = true.
FatalErrorRecoverable(e) == ErrorMsg("fatal", e, TRUE)
FatalError(e) == ErrorMsg("fatal", e, FALSE)

\* handle_request returning True for a shutdown too.
always_continue(type) == TRUE

\* What handle_request returns (should_continue) for a request type.
should_continue(type) == type # "shutdown"

\* The entry of hist for a line just read.
Entry(line) == [line |-> line, load |-> "none", synth |-> <<>>, then |-> "running"]

NoFrame ==
    [line |-> 0, request_id |-> "", chunks |-> <<>>, index |-> 0, total_chunks |-> 0]

\* load_model without its "if _kokoro is not None: return True": every call
\* tries the model files again and replaces the handle.
load_model_reloading(k, attempt) ==
    IF attempt = "ok" THEN [ret |-> TRUE, kokoro |-> "Kokoro", load |-> "ok"]
    ELSE [ret |-> FALSE, kokoro |-> None, load |-> "fail"]

\* load_model returning True without having a handle.
load_model_unchecked(k, attempt) ==
    [ret |-> TRUE, kokoro |-> k, load |-> IF k = None THEN "ok" ELSE "cached"]

\* load_model remembering a failure: after one, it fails without trying.
load_model_sticky(k, attempt) ==
    IF k = "Failed" THEN [ret |-> FALSE, kokoro |-> k, load |-> "cached"]
    ELSE IF k # None THEN [ret |-> TRUE, kokoro |-> k, load |-> "cached"]
    ELSE IF attempt = "ok" THEN [ret |-> TRUE, kokoro |-> "Kokoro", load |-> "ok"]
    ELSE [ret |-> FALSE, kokoro |-> "Failed", load |-> "fail"]

\* load_model: the value returned, the new _kokoro, and whether the model
\* files were tried; attempt is how the try goes when there is one.
load_model(k, attempt) ==
    IF k # None THEN [ret |-> TRUE, kokoro |-> k, load |-> "cached"]
    ELSE IF attempt = "ok" THEN [ret |-> TRUE, kokoro |-> "Kokoro", load |-> "ok"]
    ELSE [ret |-> FALSE, kokoro |-> k, load |-> "fail"]

\* Lines read ahead, while a request is still being synthesized.
ReadsWhileGenerating == pc \in {"Ready", "Generating"}

\* The guard of "for line in sys.stdin": main reads when in its loop.
AtLoopHead == pc = "Ready"

ProtoInit ==
    /\ pc = "Starting"
    /\ nread = 0
    /\ stdout = <<>>
    /\ _kokoro = None
    /\ _sample_rate = DEFAULT_SAMPLE_RATE
    /\ hist = <<>>
    /\ frame = NoFrame

SegIdle == segIn = <<>> /\ segOut = <<>> /\ segPc = "idle"

\* main, up to its loop.
Start ==
    /\ pc = "Starting"
    /\ stdout' = Append(stdout, Sent([id |-> "init", type |-> "ready"], nread, 0))
    /\ pc' = "Ready"
    /\ UNCHANGED <<nread, _kokoro, _sample_rate, hist, frame, segVars>>

\* A line is read: the part every iteration of the loop shares.
Read(line) ==
    /\ AtLoopHead
    /\ nread < MaxLines
    /\ nread' = nread + 1

\* "if not line: continue"
ReadBlank ==
    /\ Read([k |-> "blank"])
    /\ hist' = Append(hist, [Entry([k |-> "blank"]) EXCEPT !.then = "Ready"])
    /\ UNCHANGED <<pc, stdout, _kokoro, _sample_rate, frame, segVars>>

\* json.loads raises JSONDecodeError.
ReadInvalidJson ==
    /\ Read([k |-> "badjson"])
    /\ stdout' = Append(stdout,
           Sent(InvalidJsonError, nread', nread'))
    /\ hist' = Append(hist, [Entry([k |-> "badjson"]) EXCEPT !.then = "Ready"])
    /\ UNCHANGED <<pc, _kokoro, _sample_rate, frame, segVars>>

\* json.loads returns a value that has no .get: handle_request raises
\* AttributeError, which main's "except Exception" reports and ends on.
ReadNonObject ==
    /\ Read([k |-> "nonobj"])
    /\ stdout' = Append(stdout,
           Sent(FatalError("AttributeError"), nread', nread'))
    /\ hist' = Append(hist, [Entry([k |-> "nonobj"]) EXCEPT !.then = "Terminated"])
    /\ pc' = "Terminated"
    /\ UNCHANGED <<_kokoro, _sample_rate, frame, segVars>>

\* handle_request, "ping".
HandlePing ==
    \E line \in Lines :
        /\ line.k = "obj"
        /\ Get(line.d, "type", "") = "ping"
        /\ Read(line)
        /\ stdout' = Append(stdout,
               Sent([id |-> PongId(line.d), type |-> "pong"],
                    nread', nread'))
        /\ hist' = Append(hist, [Entry(line) EXCEPT !.then = "Ready"])
        /\ UNCHANGED <<pc, _kokoro, _sample_rate, frame, segVars>>

\* handle_request, "shutdown": it returns False and main leaves its loop.
HandleShutdown ==
    \E line \in Lines :
        /\ line.k = "obj"
        /\ Get(line.d, "type", "") = "shutdown"
        /\ Read(line)
        /\ pc' = (IF should_continue("shutdown") THEN "Ready" ELSE "Terminated")
        /\ hist' = Append(hist, [Entry(line) EXCEPT !.then = pc'])
        /\ UNCHANGED <<stdout, _kokoro, _sample_rate, frame, segVars>>

\* handle_request, any other type.
HandleUnknown ==
    \E line \in Lines :
        /\ line.k = "obj"
        /\ Get(line.d, "type", "") \notin {"generate", "ping", "shutdown"}
        /\ Read(line)
        /\ stdout' = Append(stdout,
               Sent(ErrorMsg(UnknownTypeId(line.d), "Unknown request type", TRUE),
                    nread', nread'))
        /\ hist' = Append(hist, [Entry(line) EXCEPT !.then = "Ready"])
        /\ UNCHANGED <<pc, _kokoro, _sample_rate, frame, segVars>>

\* handle_request, "generate": handle_generate up to the first call of
\* _kokoro.create (or to its return, when there is none).
HandleGenerate ==
    \E line \in Lines, attempt \in {"ok", "fail"} :
        /\ line.k = "obj"
        /\ Get(line.d, "type", "") = "generate"
        /\ Read(line)
        /\ LET request_id == GenerateId(line.d)
               text == Get(line.d, "text", Str(<<>>))
               lm == load_model(_kokoro, attempt)
               n == nread'
               e == Entry(line)
               Reply(m, load) ==
                   /\ stdout' = Append(stdout, Sent(m, n, n))
                   /\ hist' = Append(hist, [e EXCEPT !.load = load, !.then = "Ready"])
                   /\ UNCHANGED <<pc, _sample_rate, frame>>
           IN  IF ~Truthy(text) THEN
                   /\ Reply(NoTextError(request_id), "none")
                   /\ UNCHANGED _kokoro
               ELSE
                   /\ _kokoro' = lm.kokoro
                   /\ IF ~lm.ret THEN
                          Reply(LoadError(request_id), lm.load)
                      ELSE IF lm.kokoro = None THEN
                          \* generate_chunks raises RuntimeError
                          Reply(GenerationError(request_id, "Model not loaded"), lm.load)
                      ELSE IF ~IsStr(text) THEN
                          \* chunk_text raises AttributeError on text.strip()
                          Reply(GenerationError(request_id, "AttributeError"), lm.load)
                      ELSE LET chunks == chunk_text(text.s) IN
                          IF chunks = <<>> THEN
                              Reply([id |-> request_id, type |-> "done",
                                     total_chunks |-> 0], lm.load)
                          ELSE
                              /\ pc' = "Generating"
                              /\ frame' = [line |-> n,
                                           request_id |-> request_id,
                                           chunks |-> chunks,
                                           index |-> 0, total_chunks |-> 0]
                              /\ hist' = Append(hist, [e EXCEPT !.load = lm.load])
                              /\ UNCHANGED <<stdout, _sample_rate>>
        /\ UNCHANGED segVars

\* What _kokoro.create does: it raises, or returns samples and a rate.
SynthResults ==
    {[ok |-> FALSE, sr |-> 0]}
    \cup {[ok |-> TRUE, sr |-> r] : r \in {DEFAULT_SAMPLE_RATE, OTHER_SAMPLE_RATE}}

\* The line whose handle_generate is running.
Current == frame.line

\* "total_chunks = index": the count one short.
total_chunks_one_short(index) == index

\* "total_chunks = index + 1"
total_chunks_after(index) == index + 1

\* One call of _kokoro.create returns: generate_chunks yields and
\* handle_generate sends the audio, then the done after the last chunk; or
\* the call raises and handle_generate's "except Exception" sends the error.
SynthChunk ==
    \E res \in SynthResults :
        /\ pc = "Generating"
        /\ LET id == frame.request_id
               index == frame.index
               audio == Sent([id |-> id, type |-> "audio", chunk |-> "pcm",
                              index |-> index], nread, Current)
           IN  IF ~res.ok THEN
                   /\ stdout' = Append(stdout,
                          Sent(GenerationError(id, "synthesis failed"), nread, Current))
                   /\ hist' = [hist EXCEPT ![Current].synth = Append(@, "fail"),
                                           ![Current].then = "Ready"]
                   /\ pc' = "Ready"
                   /\ frame' = NoFrame
                   /\ UNCHANGED _sample_rate
               ELSE
                   /\ _sample_rate' = IF res.sr # _sample_rate THEN res.sr
                                      ELSE _sample_rate
                   /\ IF index + 1 < Len(frame.chunks) THEN
                          /\ stdout' = Append(stdout, audio)
                          /\ frame' = [frame EXCEPT !.index = index + 1,
                                                    !.total_chunks = total_chunks_after(index)]
                          /\ hist' = [hist EXCEPT ![Current].synth = Append(@, "ok")]
                          /\ UNCHANGED pc
                      ELSE
                          /\ stdout' = stdout \o
                                 <<audio,
                                   Sent([id |-> id, type |-> "done",
                                         total_chunks |-> total_chunks_after(index)],
                                        nread, Current)>>
                          /\ hist' = [hist EXCEPT ![Current].synth = Append(@, "ok"),
                                                  ![Current].then = "Ready"]
                          /\ pc' = "Ready"
                          /\ frame' = NoFrame
        /\ UNCHANGED <<nread, _kokoro, segVars>>

\* "for line in sys.stdin" ends: stdin is closed.
EndOfInput ==
    /\ AtLoopHead
    /\ pc' = "Terminated"
    /\ UNCHANGED <<nread, stdout, _kokoro, _sample_rate, hist, frame, segVars>>

\* KeyboardInterrupt, in the loop: "except Exception" does not catch it,
\* main's "except KeyboardInterrupt" logs and main ends.
Interrupt ==
    /\ pc \in {"Ready", "Generating"}
    /\ pc' = "Terminated"
    /\ frame' = NoFrame
    /\ UNCHANGED <<nread, stdout, _kokoro, _sample_rate, hist, segVars>>

Init == ProtoInit /\ SegIdle

Next ==
    \/ Start
    \/ ReadBlank
    \/ ReadInvalidJson
    \/ ReadNonObject
    \/ HandlePing
    \/ HandleShutdown
    \/ HandleUnknown
    \/ HandleGenerate
    \/ SynthChunk
    \/ EndOfInput
    \/ Interrupt

Spec == Init /\ [][Next]_vars

\* The same program when every call of _kokoro.create returns or raises:
\* a request that is being synthesized is not left waiting for ever.
LiveSpec == Init /\ [][Next]_vars /\ WF_vars(SynthChunk)

\* ------------------------------------------- the segmenter on its own

\* The texts chunk_text is applied to: up to MaxPieces pieces, each a run of
\* letters, then nothing or a punctuation mark, then a space.
PieceLens == {0, 5, 20, 145, 151}
PieceEnds == {<<>>, <<".">>, <<",">>}
Pieces == {Rep("a", n) \o e \o <<" ">> : n \in PieceLens, e \in PieceEnds}

RECURSIVE Flatten(_)
Flatten(ps) == IF ps = <<>> THEN <<>> ELSE Head(ps) \o Flatten(Tail(ps))

SegInputs == {Flatten(ps) : ps \in UNION {[1..k -> Pieces] : k \in 0..MaxPieces}}

SegInit ==
    /\ ProtoInit
    /\ segIn \in SegInputs
    /\ segOut = <<>>
    /\ segPc = "ready"

Segment ==
    /\ segPc = "ready"
    /\ segOut' = chunk_text(segIn)
    /\ segPc' = "done"
    /\ UNCHANGED <<segIn, protoVars>>

SegNext == Segment

SegSpec == SegInit /\ [][SegNext]_vars

\* -------------------------------------------------------------- claims

\* The responses caused by line i, in the order they were sent.
Resp(i) ==
    LET sel == SelectSeq(stdout, LAMBDA e : e.cause = i)
    IN  [k \in 1..Len(sel) |-> sel[k].msg]

IsRequest(i, type) ==
    /\ hist[i].line.k = "obj"
    /\ "type" \in DOMAIN hist[i].line.d
    /\ hist[i].line.d.type = type

LinesRead == 1..Len(hist)
GenerateLines == {i \in LinesRead : IsRequest(i, "generate")}
PingLines == {i \in LinesRead : IsRequest(i, "ping")}

HasId(i) == "id" \in DOMAIN hist[i].line.d
\* The id the responses to a generate request are to carry.
IdOf(i) == IF HasId(i) THEN hist[i].line.d.id ELSE "unknown"

HasText(i) == "text" \in DOMAIN hist[i].line.d
EmptyText(i) == ~HasText(i) \/ hist[i].line.d.text = Str(<<>>)
StringText(i) == HasText(i) /\ hist[i].line.d.text.t = "str"

Loaded(i) == hist[i].load \in {"ok", "cached"}
AllSynthOk(i) == \A k \in DOMAIN hist[i].synth : hist[i].synth[k] = "ok"
\* The first k calls of _kokoro.create succeeded and the next one failed.
FailedAt(i, k) ==
    /\ Len(hist[i].synth) = k + 1
    /\ hist[i].synth[k + 1] = "fail"
    /\ \A j \in 1..k : hist[i].synth[j] = "ok"

AudioMsg(id, index) == [id |-> id, type |-> "audio", chunk |-> "pcm", index |-> index]
DoneMsg(id, n) == [id |-> id, type |-> "done", total_chunks |-> n]
Audios(id, n) == [k \in 1..n |-> AudioMsg(id, k - 1)]

IsError(m, id, recoverable) ==
    /\ m.type = "error"
    /\ m.id = id
    /\ m.recoverable = recoverable

\* C1: a generate request with non-empty text whose load and whose N chunk
\* syntheses all succeed is answered by the audio messages 0..N-1 in order,
\* then one done message with total_chunks = N, all with its id, and by
\* nothing else; until it is answered, what was sent is the audio messages
\* of the chunks synthesized so far.
C1_SuccessfulGeneration ==
    \A i \in GenerateLines :
        (~EmptyText(i) /\ StringText(i) /\ Loaded(i) /\ AllSynthOk(i)) =>
            LET N == Len(chunk_text(hist[i].line.d.text.s))
                expected == Append(Audios(IdOf(i), N), DoneMsg(IdOf(i), N))
            IN  /\ hist[i].then = "Ready" => Resp(i) = expected
                /\ hist[i].then = "running" =>
                       /\ Len(hist[i].synth) < N
                       /\ Resp(i) = Audios(IdOf(i), Len(hist[i].synth))
                /\ hist[i].then # "Terminated"

C1_Witness ==
    \E i \in GenerateLines :
        /\ Loaded(i) /\ AllSynthOk(i)
        /\ hist[i].then = "Ready"
        /\ Len(hist[i].synth) = 2
        /\ Len(Resp(i)) = 3
        /\ Resp(i)[3].type = "done"

\* C3: when the synthesis of chunk k fails after chunks 0..k-1 succeeded,
\* the request is answered by the audio messages 0..k-1, then one error
\* with recoverable = true and its id, and by nothing else; the model stays
\* loaded, and no later generate request tries a load.
C3_ChunkFailure ==
    \A i \in GenerateLines : \A k \in 0..Len(hist[i].synth) :
        FailedAt(i, k) =>
            /\ Len(Resp(i)) = k + 1
            /\ SubSeq(Resp(i), 1, k) = Audios(IdOf(i), k)
            /\ IsError(Resp(i)[k + 1], IdOf(i), TRUE)
            /\ hist[i].then = "Ready"
            /\ _kokoro # None
            /\ \A j \in GenerateLines : j > i => hist[j].load \in {"none", "cached"}

C3_Witness ==
    \E i \in GenerateLines : \E j \in GenerateLines :
        /\ FailedAt(i, 1)
        /\ j > i
        /\ hist[j].load = "cached"
        /\ Len(Resp(i)) = 2

\* C2: every audio, done, error and pong message sent while a request that
\* carries an id (any string) is handled carries that id, whatever the
\* request's type.
C2_ResponsesCarryRequestId ==
    \A k \in DOMAIN stdout :
        LET i == stdout[k].cause IN
        (i >= 1 /\ hist[i].line.k = "obj" /\ HasId(i)) =>
            /\ stdout[k].msg.type \in {"audio", "done", "error", "pong"}
            /\ stdout[k].msg.id = hist[i].line.d.id

\* C4: a generate request with non-empty text whose load fails is answered
\* by exactly one error with recoverable = false and its id; main goes on
\* reading, and a ping read later is answered by a pong.
C4_LoadFailure ==
    \A i \in GenerateLines :
        (~EmptyText(i) /\ hist[i].load = "fail") =>
            /\ Len(Resp(i)) = 1
            /\ IsError(Resp(i)[1], IdOf(i), FALSE)
            /\ hist[i].then = "Ready"
            /\ hist[i].synth = <<>>
            /\ \A j \in PingLines : j > i =>
                   /\ Len(Resp(j)) = 1
                   /\ Resp(j)[1].type = "pong"

C4_Witness ==
    \E i \in GenerateLines : \E j \in PingLines :
        /\ hist[i].load = "fail"
        /\ j = i + 1
        /\ Len(Resp(j)) = 1
        /\ Resp(j)[1].type = "pong"

\* C5: a generate request whose text is empty or missing is answered by
\* exactly one error with recoverable = true and its id, with no load tried
\* and no synthesis, whether or not the model is loaded; main goes on
\* reading.
C5_EmptyText ==
    \A i \in GenerateLines :
        EmptyText(i) =>
            /\ Len(Resp(i)) = 1
            /\ IsError(Resp(i)[1], IdOf(i), TRUE)
            /\ hist[i].load = "none"
            /\ hist[i].synth = <<>>
            /\ hist[i].then = "Ready"

\* An empty-text request read with the model loaded, and one read after a
\* failed load.
C5_Witness ==
    /\ \E i \in GenerateLines :
           /\ EmptyText(i) /\ HasId(i) /\ Len(Resp(i)) = 1
           /\ (_kokoro # None \/ \E j \in GenerateLines : j < i /\ hist[j].load = "fail")

\* C6: every non-blank line that is no well-formed message (not JSON, or
\* JSON that is no object) is answered by exactly one error with
\* recoverable = true and the id "unknown", and main goes on reading.
C6_MalformedLine ==
    \A i \in LinesRead :
        hist[i].line.k \in {"badjson", "nonobj"} =>
            /\ Len(Resp(i)) = 1
            /\ IsError(Resp(i)[1], "unknown", TRUE)
            /\ hist[i].then = "Ready"

\* C7: a shutdown message is answered by nothing and ends main: no line is
\* read and no response is sent after it; and once main has ended, nothing
\* changes any more.
C7_ShutdownState ==
    \A i \in LinesRead :
        IsRequest(i, "shutdown") =>
            /\ Resp(i) = <<>>
            /\ hist[i].then = "Terminated"
            /\ pc = "Terminated"
            /\ i = Len(hist) /\ i = nread
            /\ \A k \in DOMAIN stdout : stdout[k].at < i

C7_ShutdownIsLast ==
    /\ []C7_ShutdownState
    /\ [][pc = "Terminated" =>
             pc' = "Terminated" /\ stdout' = stdout /\ nread' = nread]_vars

\* A shutdown was read as the first line, while more lines could still be
\* read: only the ready message was ever sent.
C7_Witness ==
    /\ pc = "Terminated"
    /\ nread < MaxLines
    /\ IsRequest(nread, "shutdown")
    /\ Len(stdout) = 1

\* C8: a ping is answered by exactly one message, a pong whose id is the
\* ping's id if it has one and "health" otherwise.
C8_Pong ==
    \A i \in PingLines :
        Resp(i) = <<[id |-> IF HasId(i) THEN hist[i].line.d.id ELSE "health",
                     type |-> "pong"]>>

\* C9: the first response is the one ready message (id "init"), sent before
\* any line is read; every response is sent while the line that caused it
\* is the last line read, so the responses to a line all come before the
\* next line is read and the responses to different lines do not interleave.
C9_OrderedOutput ==
    /\ nread > 0 => stdout # <<>>
    /\ \A k \in DOMAIN stdout :
           /\ (k = 1) <=> (stdout[k].msg.type = "ready")
           /\ k = 1 => (stdout[k].msg.id = "init" /\ stdout[k].at = 0)
           /\ stdout[k].at = stdout[k].cause
           /\ stdout[k].at <= nread
           /\ \A l \in DOMAIN stdout : k < l => stdout[k].cause <= stdout[l].cause

\* Two lines with responses each: a generate answered by two audio messages
\* and a done, then another answered line.
C9_Witness ==
    /\ Len(hist) = 2
    /\ Len(Resp(1)) = 3
    /\ Len(Resp(2)) >= 1
    /\ Len(stdout) >= 5

\* C10: no chunk chunk_text returns is longer than MAX_SENTENCE_LENGTH,
\* except a chunk that is a single clause: one with no clause or sentence
\* boundary inside, at which it could have been split.
C10_MaxChunkLength ==
    segPc = "done" =>
        \A k \in DOMAIN segOut :
            \/ Len(segOut[k]) <= MAX_SENTENCE_LENGTH
            \/ Boundaries(segOut[k], ClausePunct \cup SentencePunct) = {}

\* The chunks before the final pass of chunk_text over them.
BeforeMerge(text) == SentenceLoop(<<>>, StripAll(ReSplit(Strip(text), SentencePunct)))

\* The whitespace-separated tokens of s from position p on, in order.
RECURSIVE TokensFrom(_, _)
TokensFrom(s, p) ==
    LET b == FirstNonWs(s, p) IN
    IF b > Len(s) THEN <<>>
    ELSE LET after == {i \in b..Len(s) : s[i] \in WS}
             e == IF after = {} THEN Len(s) + 1 ELSE Least(after)
         IN  <<SubSeq(s, b, e - 1)>> \o TokensFrom(s, e)

Tokens(s) == TokensFrom(s, 1)

RECURSIVE TokensOfAll(_)
TokensOfAll(chunks) ==
    IF chunks = <<>> THEN <<>>
    ELSE Tokens(Head(chunks)) \o TokensOfAll(Tail(chunks))

\* C11: when chunk_text returns two or more chunks, each of them has at
\* least MIN_CHUNK_SIZE characters; a shorter chunk is the only chunk.
C11_MinChunkSize ==
    (segPc = "done" /\ Len(segOut) >= 2) =>
        \A k \in DOMAIN segOut : Len(segOut[k]) >= MIN_CHUNK_SIZE

\* A text whose first chunk before the final pass was too small and which
\* still ends as two chunks or more.
C11_Witness ==
    /\ segPc = "done"
    /\ Len(segOut) >= 2
    /\ Len(BeforeMerge(segIn)) >= 3
    /\ Len(BeforeMerge(segIn)[1]) < MIN_CHUNK_SIZE

\* C12: the tokens of the chunks chunk_text returns, taken in order, are
\* the tokens of its input: none lost, doubled, joined or moved.
C12_TokensPreserved ==
    segPc = "done" => TokensOfAll(segOut) = Tokens(segIn)

\* A text of three tokens or more that was split and had chunks merged.
C12_Witness ==
    /\ segPc = "done"
    /\ Len(Tokens(segIn)) >= 3
    /\ Len(segOut) >= 2
    /\ Len(segOut) < Len(BeforeMerge(segIn))

\* C13: for a text whose trimmed length is at most MAX_SENTENCE_LENGTH,
\* chunk_text returns no chunk when the trimmed text is empty and otherwise
\* one chunk, the trimmed text, unsplit.
C13_ShortText ==
    (segPc = "done" /\ Len(Strip(segIn)) <= MAX_SENTENCE_LENGTH) =>
        LET t == Strip(segIn) IN
        /\ t = <<>> => segOut = <<>>
        /\ t # <<>> =>
               /\ segOut = <<t>>
               /\ segOut[1][1] \notin WS
               /\ segOut[1][Len(t)] \notin WS
               /\ Tokens(t) = Tokens(segIn)

\* A short text with leading whitespace and a sentence boundary between two
\* sentences that are each long enough to stand alone, returned as one chunk.
C13_Witness ==
    /\ segPc = "done"
    /\ Len(segOut) = 1
    /\ segIn[1] \in WS
    /\ Len(Strip(segIn)) <= MAX_SENTENCE_LENGTH
    /\ Len(BeforeMerge(segIn)) = 2

\* The lines before line i whose load_model call returned True.
LoadedBefore(i) == {j \in GenerateLines : j < i /\ Loaded(j)}

\* C14: once a load has succeeded the handle stays: it is there in every
\* later state, no step replaces or clears it, every later load_model call
\* returns the cached handle without a load attempt, and so at most one
\* load succeeds in a run.
C14_HandleState ==
    /\ (\E i \in GenerateLines : Loaded(i)) => _kokoro # None
    /\ \A i \in GenerateLines : \A j \in GenerateLines :
           (hist[i].load = "ok" /\ j > i) => hist[j].load \in {"none", "cached"}
    /\ Cardinality({i \in GenerateLines : hist[i].load = "ok"}) <= 1

C14_HandleKept ==
    /\ []C14_HandleState
    /\ [][_kokoro # None => _kokoro' = _kokoro]_vars

\* A load succeeded, its request failed at a chunk, and a later generate
\* request found the handle cached.
C14_Witness ==
    \E i \in GenerateLines : \E j \in GenerateLines :
        /\ hist[i].load = "ok"
        /\ FailedAt(i, 0)
        /\ j > i
        /\ hist[j].load = "cached"
        /\ _kokoro # None

\* C15: a failed load is not remembered: a generate request with non-empty
\* text finds the handle cached exactly when an earlier load_model call
\* returned True, and otherwise tries a load; a failed try is answered by
\* one error with recoverable = false, and a try that succeeds after failed
\* ones is answered like any other, by the audio messages and a done.
C15_LoadRetried ==
    \A i \in GenerateLines :
        ~EmptyText(i) =>
            /\ hist[i].load # "none"
            /\ hist[i].load = "cached" <=> LoadedBefore(i) # {}
            /\ hist[i].load = "fail" =>
                   (Len(Resp(i)) = 1 /\ IsError(Resp(i)[1], IdOf(i), FALSE))
            /\ (hist[i].load = "ok" /\ StringText(i) /\ AllSynthOk(i)
                    /\ hist[i].then = "Ready") =>
                   LET N == Len(chunk_text(hist[i].line.d.text.s)) IN
                   Resp(i) = Append(Audios(IdOf(i), N), DoneMsg(IdOf(i), N))

\* A failed load, then a generate request whose load succeeds and which is
\* answered by two audio messages and a done.
C15_Witness ==
    \E i \in GenerateLines : \E j \in GenerateLines :
        /\ hist[i].load = "fail"
        /\ j > i
        /\ hist[j].load = "ok"
        /\ hist[j].then = "Ready"
        /\ Len(Resp(j)) = 3
        /\ Resp(j)[3].type = "done"

\* The lines whose handling raised an exception that no handler catches
\* before main's "except Exception".
UncaughtLines == {i \in LinesRead : hist[i].line.k = "nonobj"}

\* C16: a failure in the loop body that no per-message case handles is
\* answered by exactly one error with id "fatal" and recoverable = false,
\* and the engine is then Terminated: that message is the last of stdout,
\* the line is the last one read, and no other line is answered by a
\* message with id "fatal".
C16_FatalFailure ==
    /\ \A i \in UncaughtLines :
           /\ Len(Resp(i)) = 1
           /\ IsError(Resp(i)[1], "fatal", FALSE)
           /\ hist[i].then = "Terminated"
           /\ pc = "Terminated"
           /\ i = Len(hist)
           /\ nread = i
           /\ stdout[Len(stdout)].at = i
    /\ \A k \in DOMAIN stdout :
           (stdout[k].msg.type = "error" /\ stdout[k].msg.id = "fatal") =>
               stdout[k].at \in UncaughtLines

\* The loop body failed on the second line, after a ping had been answered.
C16_Witness ==
    /\ Len(hist) = 2
    /\ 2 \in UncaughtLines
    /\ IsRequest(1, "ping")
    /\ pc = "Terminated"
    /\ stdout[Len(stdout)].msg.id = "fatal"

\* The lines that are requests of a type handle_request does not know.
UnknownLines ==
    {i \in LinesRead :
        /\ hist[i].line.k = "obj"
        /\ Get(hist[i].line.d, "type", "") \notin {"generate", "ping", "shutdown"}}

\* The lines after which main is to go on reading.
StayingLines ==
    {i \in LinesRead : hist[i].line.k \in {"blank", "badjson"}}
    \cup PingLines \cup UnknownLines \cup GenerateLines

\* Line i is a generate request that is still being synthesized.
InProgress(i) ==
    /\ i = Len(hist)
    /\ i \in GenerateLines
    /\ hist[i].then = "running"
    /\ pc = "Generating"

\* Line i is a generate request that a KeyboardInterrupt ended between two
\* chunks: main has ended and the request has no done and no error.
Interrupted(i) ==
    /\ i = Len(hist)
    /\ i \in GenerateLines
    /\ hist[i].then = "running"
    /\ pc = "Terminated"
    /\ \A k \in DOMAIN Resp(i) : Resp(i)[k].type = "audio"

\* An unknown-type request is answered by one error with recoverable = true
\* and the incoming id, or "unknown" when there is none.
UnknownAnswered(i) ==
    /\ Len(Resp(i)) = 1
    /\ Resp(i)[1].type = "error"
    /\ Resp(i)[1].recoverable = TRUE
    /\ (HasId(i) /\ hist[i].line.d.id # "") => Resp(i)[1].id = hist[i].line.d.id
    /\ ~HasId(i) => Resp(i)[1].id = "unknown"
    /\ Resp(i)[1].id \in {IdOf(i), "unknown"}

C17_StayingState ==
    /\ \A i \in StayingLines :
           hist[i].then = "Ready" \/ InProgress(i) \/ Interrupted(i)
    /\ \A i \in UnknownLines : UnknownAnswered(i)

Terminals(i) == {k \in DOMAIN Resp(i) : Resp(i)[k].type \in {"done", "error"}}

\* Line i has its one terminal message: a done or an error with the
\* request's id, after which nothing was sent for it.
Answered(i) ==
    /\ i \in GenerateLines
    /\ Terminals(i) = {Len(Resp(i))}
    /\ Resp(i)[Len(Resp(i))].id = IdOf(i)

\* At any time a generate request has at most one terminal message, which
\* is then the last message sent for it, and has one once main is back at
\* its loop head.
C18_OneTerminal ==
    \A i \in GenerateLines :
        /\ Terminals(i) \subseteq {Len(Resp(i))}
        /\ \A k \in DOMAIN Resp(i) : Resp(i)[k].id = IdOf(i)
        /\ hist[i].then = "Ready" <=> Answered(i)

C19_SynthesisNeedsModel ==
    /\ pc = "Generating" => (_kokoro # None /\ Loaded(frame.line))
    /\ \A i \in LinesRead :
           hist[i].synth # <<>> => (i \in GenerateLines /\ Loaded(i) /\ _kokoro # None)
    /\ \A k \in DOMAIN stdout :
           stdout[k].msg.type = "error" => stdout[k].msg.error # "Model not loaded"

\* A load failed and was answered by the load error; the next request
\* loaded the model and its first chunk has been synthesized.
C19_Witness ==
    /\ Len(hist) = 2
    /\ hist[1].load = "fail"
    /\ Resp(1)[1].error = "Failed to load TTS model"
    /\ hist[2].load = "ok"
    /\ hist[2].synth = <<"ok">>
    /\ pc = "Generating"

\* The line is a generate request that has a text other than "".
ValidGenerate(line) ==
    /\ line.k = "obj"
    /\ "type" \in DOMAIN line.d
    /\ line.d.type = "generate"
    /\ "text" \in DOMAIN line.d
    /\ line.d.text # Str(<<>>)

\* C20: _kokoro and _sample_rate change only in the handling of a generate
\* request with non-empty text: the ready message, blank and malformed
\* lines, ping, shutdown, unknown types and generate requests without text
\* change neither and call neither load_model nor _kokoro.create; the
\* handle is there only after such a request has loaded it.
C20_LazyState ==
    /\ \A i \in LinesRead :
           ~ValidGenerate(hist[i].line) =>
               (hist[i].load = "none" /\ hist[i].synth = <<>>)
    /\ _kokoro # None =>
           \E i \in LinesRead : ValidGenerate(hist[i].line) /\ hist[i].load = "ok"
    /\ _sample_rate # DEFAULT_SAMPLE_RATE =>
           \E i \in LinesRead : ValidGenerate(hist[i].line) /\ hist[i].synth # <<>>

C20_ModelStateFrame ==
    /\ []C20_LazyState
    /\ [][(_kokoro' # _kokoro \/ _sample_rate' # _sample_rate) =>
             /\ hist' # <<>>
             /\ ValidGenerate(hist'[Len(hist')].line)
             /\ Len(hist') = Len(hist) + 1 \/ pc = "Generating"]_vars

\* A generate request without text left the model unloaded; the next one,
\* with text, loaded it and its synthesis changed the sample rate.
C20_Witness ==
    /\ Len(hist) = 2
    /\ 1 \in GenerateLines /\ EmptyText(1)
    /\ hist[1].load = "none"
    /\ Len(Resp(1)) = 1
    /\ hist[2].load = "ok"
    /\ _kokoro # None
    /\ _sample_rate = OTHER_SAMPLE_RATE

====
